---- MODULE Spec2Model ----
(***************************************************************************)
(* Resilience layer of the weather-reporter API gateway:                   *)
(*   - src/utils/CircuiteBreaker.js : breaker registry, service profiles,  *)
(*     error filter, fallback table, and the listeners put on each opossum *)
(*     CircuitBreaker;                                                     *)
(*   - infrastructure/middleware/ratelimit.js : the rate limiter           *)
(*     middleware over rate-limiter-flexible.                              *)
(* The breaker itself is the opossum ^8.1.4 CircuitBreaker the gateway     *)
(* constructs; its call path (emit 'fire', state test, action, timeout,    *)
(* handleError, fail, open/close, reset timer, rolling Status window) is   *)
(* modelled as that library executes it with the options and listeners     *)
(* the gateway gives it.                                                   *)
(***************************************************************************)
EXTENDS Integers, Sequences, FiniteSets, TLC

VARIABLES
    \* ---- one breaker instance (opossum CircuitBreaker built at line 244)
    svc,            \* service the breaker was created for
    op,             \* operationType the breaker was created for
    state,          \* "CLOSED" | "OPEN" | "HALF_OPEN"
    pendingClose,   \* opossum PENDING_CLOSE: HALF_OPEN and no probe admitted yet
    window,         \* opossum Status window: newest bucket first
    now,            \* clock, ms
    resetAt,        \* deadline of the reset timer, NoTimer when none
    rotateAt,       \* deadline of the next bucket rotation
    calls,          \* admitted calls not yet settled: their start times
    actionCalls,    \* number of times the downstream action was invoked
    fireCount,      \* number of fire() calls made
    lastFire,       \* what the most recent fire() did
    openedAt,       \* time the breaker last entered OPEN, NoTimer if never
    reopenedAt,     \* time of the last HALF_OPEN -> OPEN step, NoTimer if none
    closedAdv,      \* clock advances made so far while the breaker was CLOSED
    \* ---- rate limiter
    limStore,       \* RateLimiterMemory storage: key -> [value, expiresAt]
    limNow,         \* clock of the limiter, ms
    limBlock,       \* configured blockDuration, seconds
    limCalls,       \* per id: its requests since its window began
    limAdmitted,    \* per id: those of them passed on to next()
    limLast,        \* per id: outcome of its most recent request
    \* ---- error filter applied to one error
    fltError, fltService, fltResult,
    \* ---- breaker registry
    breakerInstances,   \* Map: instance key -> null or a breaker
    created,            \* breakers constructed so far (object identities)
    lastGet,            \* the most recent getCircuitBreakerInstance call
    breakerStates,      \* per breaker constructed: the state it is in
    healthReport,       \* body of the last GET /circuit-breakers response
    \* ---- fallback resolution for one (service, operationType)
    fbService, fbOperation, fbProducer,
    \* ---- rateLimiterMiddleware handling one request
    mwPoints,       \* points the active limiter was built with
    mwOutcome,      \* how rateLimiter.consume(req.ip) settled
    mwHeaders,      \* response headers set by the middleware
    mwNext,         \* arguments of the calls of next(), in order
    \* ---- limiter initialization and swap, with requests in flight
    rateLimiter,    \* the active limiter: 0 for null, else an index of limiters
    initPromise,    \* 0 for null, else an index of promises
    promises,       \* every init promise made: "pending" or "resolved"
    initsPending,   \* initializations suspended at await getUnifiedCache()
    limiters,       \* every limiter object constructed so far
    redisConsumedBy,\* requests counted in the shared Redis store, in order
    requests,       \* per request: where it is in the middleware
    reinits,        \* number of reinitializeRateLimiter() calls so far
    initRead,       \* what the initialization that completed last had read
    \* ---- MemoryCache
    cache,          \* this.cache: key -> [value, timestamp]
    timers,         \* this.timers: key -> deadline of the pending timeout
    stats,          \* this.stats: hits, misses
    cacheNow,       \* clock of the cache, in ticks
    cacheOps,       \* operations performed so far
    lastSet,        \* per key: the last set(), and whether it still stands
    lastRead,       \* the most recent get(): key, time, result
    \* ---- CacheFactory (the cache selector)
    fcStrategy,     \* config.cache.strategy
    fcRedisUp,      \* globalRedisCache.isConnected
    fcConnectFails, \* whether connect() rejects
    fcCache,        \* CacheFactory._cache: "null", "memory" or "redis"
    fcConnecting,   \* the selection is suspended at await connect()
    fcWaiting,      \* getInstance() calls waiting for the selection
    fcReturned,     \* instances getInstance() resolved to since the reset
    fcWarns,        \* failures logged since the last reset
    fcOps           \* getInstance() and reset() calls made so far

breakerVars == <<svc, op, state, pendingClose, window, now, resetAt, rotateAt,
                 calls, actionCalls, fireCount, lastFire, openedAt, reopenedAt,
                 closedAdv>>
limiterVars == <<limStore, limNow, limBlock, limCalls, limAdmitted, limLast>>
filterVars == <<fltError, fltService, fltResult>>
registryVars == <<breakerInstances, created, lastGet, breakerStates, healthReport>>
fallbackVars == <<fbService, fbOperation, fbProducer>>
middlewareVars == <<mwPoints, mwOutcome, mwHeaders, mwNext>>
reinitVars == <<rateLimiter, initPromise, promises, initsPending, limiters,
                redisConsumedBy, requests, reinits, initRead>>
cacheVars == <<cache, timers, stats, cacheNow, cacheOps, lastSet, lastRead>>
factoryVars == <<fcStrategy, fcRedisUp, fcConnectFails, fcCache, fcConnecting,
                 fcWaiting, fcReturned, fcWarns, fcOps>>
vars == <<breakerVars, limiterVars, filterVars, registryVars, fallbackVars,
          middlewareVars, reinitVars, cacheVars, factoryVars>>
notBreakerVars == <<limiterVars, filterVars, registryVars, fallbackVars,
                    middlewareVars, reinitVars, cacheVars,
                    factoryVars>>
notLimiterVars == <<breakerVars, filterVars, registryVars, fallbackVars,
                    middlewareVars, reinitVars, cacheVars,
                    factoryVars>>
notFilterVars == <<breakerVars, limiterVars, registryVars, fallbackVars,
                   middlewareVars, reinitVars, cacheVars,
                   factoryVars>>
notRegistryVars == <<breakerVars, limiterVars, filterVars, fallbackVars,
                     middlewareVars, reinitVars, cacheVars,
                     factoryVars>>
notFallbackVars == <<breakerVars, limiterVars, filterVars, registryVars,
                     middlewareVars, reinitVars, cacheVars,
                     factoryVars>>
notMiddlewareVars == <<breakerVars, limiterVars, filterVars, registryVars,
                       fallbackVars, reinitVars, cacheVars,
                       factoryVars>>
notReinitVars == <<breakerVars, limiterVars, filterVars, registryVars,
                   fallbackVars, middlewareVars, cacheVars,
                   factoryVars>>
notFactoryVars == <<breakerVars, limiterVars, filterVars, registryVars,
                    fallbackVars, middlewareVars, reinitVars, cacheVars>>
notCacheVars == <<breakerVars, limiterVars, filterVars, registryVars,
                  fallbackVars, middlewareVars, reinitVars,
                  factoryVars>>

----------------------------------------------------------------------------
\* Bounds of the model

\* fire() calls explored beyond the profile's volumeThreshold
ExtraFires == 2
\* admitted calls that may be in flight at once
MaxInFlight == 2
\* the breaker's clock stops after this many reset periods (plus one bucket)
MaxResetPeriods == 2
\* clock advances explored while the breaker is CLOSED (in the other states
\* the reset timer and the clock's limit bound them)
MaxClosedAdvances == 1

NoTimer == 0 - 1

Min(a, b) == IF a < b THEN a ELSE b
Max(a, b) == IF a > b THEN a ELSE b

----------------------------------------------------------------------------
\* Service profiles and fallback table

SERVICE_CONFIGS ==
    [ weather |->
        [ errorThresholdPercentage |-> 60, timeout |-> 8000,
          resetTimeout |-> 30000, rollingCountTimeout |-> 60000,
          rollingCountBuckets |-> 10, volumeThreshold |-> 10 ],
      authentication |->
        [ errorThresholdPercentage |-> 90, timeout |-> 3000,
          resetTimeout |-> 15000, rollingCountTimeout |-> 30000,
          rollingCountBuckets |-> 6, volumeThreshold |-> 5 ],
      user |->
        [ errorThresholdPercentage |-> 75, timeout |-> 4000,
          resetTimeout |-> 20000, rollingCountTimeout |-> 40000,
          rollingCountBuckets |-> 8, volumeThreshold |-> 8 ] ]

getServiceConfig(service) ==
    CASE service = "weather" -> SERVICE_CONFIGS.weather
      [] service = "authentication" -> SERVICE_CONFIGS.authentication
      [] service = "user" -> SERVICE_CONFIGS.user
      [] OTHER -> SERVICE_CONFIGS.weather

\* What a fallback producer does when invoked: a value it returns, or an
\* error it throws.
FALLBACK_STRATEGIES ==
    [ weather |->
        [ search |-> [ kind |-> "value", success |-> FALSE, fallback |-> TRUE,
                       message |-> "Weather service temporarily unavailable",
                       data |-> "[]" ],
          getWeatherByCity |->
                     [ kind |-> "value", success |-> FALSE, fallback |-> TRUE,
                       message |-> "Weather data temporarily unavailable",
                       data |-> "{temperature:null,conditions:Data unavailable}" ],
          getWeatherByCityName |->
                     [ kind |-> "value", success |-> FALSE, fallback |-> TRUE,
                       message |-> "Weather data temporarily unavailable",
                       data |-> "{temperature:null,conditions:Data unavailable}" ],
          getBulkWeather |->
                     [ kind |-> "value", success |-> FALSE, fallback |-> TRUE,
                       message |-> "Bulk weather service temporarily unavailable",
                       data |-> "{}" ] ],
      authentication |->
        [ authorize |-> [ kind |-> "throw", error |-> "AuthenticationUnavailableError" ],
          login |-> [ kind |-> "throw", error |-> "AuthenticationUnavailableError" ],
          register |-> [ kind |-> "throw", error |-> "AuthenticationUnavailableError" ],
          logout |-> [ kind |-> "throw", error |-> "AuthenticationUnavailableError" ] ],
      user |->
        [ assignRole |-> [ kind |-> "value", success |-> FALSE, fallback |-> TRUE,
                           message |-> "User service temporarily unavailable",
                           data |-> "undefined" ] ] ]

\* the producer returned for a service without strategies
GenericFallback ==
    [ kind |-> "value", success |-> FALSE, fallback |-> TRUE,
      message |-> "Service temporarily unavailable", data |-> "undefined" ]

FallbackExactOrGeneric(serviceName, operationType) ==
    IF /\ serviceName \in DOMAIN FALLBACK_STRATEGIES
       /\ operationType \in DOMAIN FALLBACK_STRATEGIES[serviceName]
    THEN FALLBACK_STRATEGIES[serviceName][operationType]
    ELSE GenericFallback

getFallbackFunction(serviceName, operationType) ==
    CASE serviceName = "weather" ->
           ( CASE operationType = "search" -> FALLBACK_STRATEGIES.weather.search
               [] operationType = "getWeatherByCity" ->
                    FALLBACK_STRATEGIES.weather.getWeatherByCity
               [] operationType = "getWeatherByCityName" ->
                    FALLBACK_STRATEGIES.weather.getWeatherByCityName
               [] operationType = "getBulkWeather" ->
                    FALLBACK_STRATEGIES.weather.getBulkWeather
               [] OTHER -> FALLBACK_STRATEGIES.weather.search )
      [] serviceName = "authentication" ->
           ( CASE operationType = "authorize" ->
                    FALLBACK_STRATEGIES.authentication.authorize
               [] operationType = "login" -> FALLBACK_STRATEGIES.authentication.login
               [] operationType = "register" ->
                    FALLBACK_STRATEGIES.authentication.register
               [] operationType = "logout" -> FALLBACK_STRATEGIES.authentication.logout
               [] OTHER -> FALLBACK_STRATEGIES.authentication.authorize )
      [] serviceName = "user" -> FALLBACK_STRATEGIES.user.assignRole
      [] OTHER -> GenericFallback

----------------------------------------------------------------------------
\* Error filter

\* An error as the filter reads it: whether it carries a response, its
\* code (NoCode when it has none) and its response status.
NoCode == "undefined"

networkErrors ==
    { "ECONNABORTED", "ECONNREFUSED", "EOPENBREAKER", "ETIMEDOUT",
      "ENETUNREACH", "EHOSTUNREACH", "ENOTFOUND" }

TransportError(code) == [ hasResponse |-> FALSE, code |-> code, status |-> 0 ]
HttpError(code, status) == [ hasResponse |-> TRUE, code |-> code, status |-> status ]

\* err = !error?.response ? error?.code : error?.response?.status
\* A code is a non-numeric string: every numeric comparison with it is false.
ErrIsCode(error) == ~error.hasResponse /\ error.code # NoCode
ErrIsStatus(error) == error.hasResponse

\* TRUE: the error is filtered (does not trip); FALSE: it counts as a failure.
EnhancedErrorFilterNo429(serviceName, error) ==
    IF ErrIsCode(error) /\ error.code \in networkErrors THEN FALSE
    ELSE IF ErrIsStatus(error) /\ error.status >= 500 THEN FALSE
    ELSE IF ErrIsStatus(error) /\ error.status >= 400 /\ error.status < 500 THEN TRUE
    ELSE FALSE

EnhancedErrorFilterAuth401Trips(serviceName, error) ==
    IF ErrIsCode(error) /\ error.code \in networkErrors THEN FALSE
    ELSE IF ErrIsStatus(error) /\ error.status >= 500 THEN FALSE
    ELSE IF ErrIsStatus(error) /\ error.status = 429 THEN FALSE
    ELSE IF serviceName = "authentication" /\ ErrIsStatus(error) /\ error.status = 401
         THEN FALSE
    ELSE IF ErrIsStatus(error) /\ error.status >= 400 /\ error.status < 500 THEN TRUE
    ELSE FALSE

createEnhancedErrorFilter(serviceName, error) ==
    IF ErrIsCode(error) /\ error.code \in networkErrors THEN FALSE
    ELSE IF ErrIsStatus(error) /\ error.status >= 500 THEN FALSE
    ELSE IF ErrIsStatus(error) /\ error.status = 429 THEN FALSE
    ELSE IF serviceName = "authentication" /\ ErrIsStatus(error) /\ error.status = 401
         THEN TRUE
    ELSE IF serviceName = "authentication" /\ ErrIsStatus(error) /\ error.status = 503
         THEN FALSE
    ELSE IF ErrIsStatus(error) /\ error.status >= 400 /\ error.status < 500 THEN TRUE
    ELSE FALSE

----------------------------------------------------------------------------
\* The breaker: opossum CircuitBreaker with the gateway's options/listeners

BreakerKeys == { <<"authentication", "login">> }
WeatherKeys == { <<"weather", "search">> }
UserKeys == { <<"user", "assignRole">> }

\* errors the downstream action may reject with
ActionErrors ==
    { TransportError("ECONNREFUSED"), HttpError("ERR_BAD_RESPONSE", 503),
      HttpError("ERR_BAD_REQUEST", 404) }

Cfg == getServiceConfig(svc)

\* Math.floor(rollingCountTimeout / rollingCountBuckets)
BucketInterval == Cfg.rollingCountTimeout \div Cfg.rollingCountBuckets

\* bounds of the exploration, by profile
MaxFires == Cfg.volumeThreshold + ExtraFires
MaxTime == MaxResetPeriods * Cfg.resetTimeout + BucketInterval

StatFields == { "fires", "failures", "successes", "rejects", "timeouts", "fallbacks" }
EmptyBucket == [ f \in StatFields |-> 0 ]

RECURSIVE SumField(_, _, _)
SumField(w, f, i) == IF i = 0 THEN 0 ELSE w[i][f] + SumField(w, f, i - 1)

\* Status.stats: the totals over the buckets of the window
StatsOf(w) == [ f \in StatFields |-> SumField(w, f, Len(w)) ]
Stats == StatsOf(window)

\* Status.increment: the newest bucket is window[0]
Increment(w, property) == [ w EXCEPT ![1][property] = @ + 1 ]

\* nextBucket: drop the oldest bucket, put a fresh one in front
NextBucket(w) == <<EmptyBucket>> \o SubSeq(w, 1, Len(w) - 1)

\* The part of the breaker the event handlers change, as one record.
B == [ state |-> state, pendingClose |-> pendingClose, window |-> window,
       resetAt |-> resetAt, openedAt |-> openedAt, reopenedAt |-> reopenedAt ]

Inc(b, property) == [ b EXCEPT !.window = Increment(@, property) ]

\* The reset timer set on 'open' runs out this long after it was started.
ResetDelayHalf(c) == c.resetTimeout \div 2
ResetDelay(c) == c.resetTimeout

\* CircuitBreaker.open(): state OPEN, 'open' starts the reset timer
OpenClearingStats(b, t) ==
    IF b.state # "OPEN"
    THEN [ b EXCEPT !.state = "OPEN", !.pendingClose = FALSE,
                    !.resetAt = t + ResetDelay(Cfg),
                    !.openedAt = t,
                    !.reopenedAt = IF b.state = "HALF_OPEN" THEN t ELSE @,
                    !.window = [ i \in 1..Len(b.window) |-> EmptyBucket ] ]
    ELSE b
OpenNoRestart(b, t) ==
    IF b.state # "OPEN"
    THEN [ b EXCEPT !.state = "OPEN", !.pendingClose = FALSE,
                    !.resetAt = IF b.state = "HALF_OPEN" THEN t
                                ELSE t + ResetDelay(Cfg),
                    !.openedAt = t,
                    !.reopenedAt = IF b.state = "HALF_OPEN" THEN t ELSE @ ]
    ELSE b
open(b, t) ==
    IF b.state # "OPEN"
    THEN [ b EXCEPT !.state = "OPEN", !.pendingClose = FALSE,
                    !.resetAt = t + ResetDelay(Cfg),
                    !.openedAt = t,
                    !.reopenedAt = IF b.state = "HALF_OPEN" THEN t ELSE @ ]
    ELSE b

\* CircuitBreaker.close(): clears the reset timer; the Status window is kept
CloseClearingStats(b) ==
    IF b.state # "CLOSED"
    THEN [ b EXCEPT !.state = "CLOSED", !.pendingClose = FALSE,
                    !.resetAt = NoTimer,
                    !.window = [ i \in 1..Len(b.window) |-> EmptyBucket ] ]
    ELSE b
close(b) ==
    IF b.state # "CLOSED"
    THEN [ b EXCEPT !.state = "CLOSED", !.pendingClose = FALSE,
                    !.resetAt = NoTimer ]
    ELSE b

\* emit('success'): successes++, then the constructor's listener closes a
\* HALF_OPEN breaker
EmitSuccessClosingAlways(b) == close(Inc(b, "successes"))
EmitSuccess(b) ==
    LET b1 == Inc(b, "successes")
    IN  IF b1.state = "HALF_OPEN" THEN close(b1) ELSE b1

\* fail(): emit('failure') (failures++), then the threshold test.
\* errorRate = failures / fires * 100 is compared with > ; over the
\* integers failures * 100 > threshold * fires is the same test.
fail(b, t) ==
    LET b1 == Inc(b, "failures")
        s == StatsOf(b1.window)
    IN  IF s.fires < Cfg.volumeThreshold /\ b1.state # "HALF_OPEN" THEN b1
        ELSE IF \/ s.failures * 100 > Cfg.errorThresholdPercentage * s.fires
                \/ b1.state = "HALF_OPEN"
             THEN open(b1, t)
             ELSE b1

\* handleError(): a filtered error is counted as a success. No fallback
\* function is registered on the breaker (opossum reads none from its
\* options), so the call then rejects with the error.
handleError(b, error, t) ==
    IF createEnhancedErrorFilter(svc, error) THEN EmitSuccess(b) ELSE fail(b, t)

SetB(b) ==
    /\ state' = b.state
    /\ pendingClose' = b.pendingClose
    /\ window' = b.window
    /\ resetAt' = b.resetAt
    /\ openedAt' = b.openedAt
    /\ reopenedAt' = b.reopenedAt

\* listener on 'fire' (registered after the constructor's own listeners)
fireListenerThrows(st) == st = "OPEN"

\* opossum keeps its fallback in FALLBACK_FUNCTION, which only
\* breaker.fallback(fn) sets. The gateway hands its producer over as
\* options.fallback, which the constructor does not read, and never calls
\* breaker.fallback(): no fallback is registered on the breaker.
FallbackRegistered == FALSE

\* call(): "if (!this.closed && !this.pendingClose)" rejects with EOPENBREAKER
callRejects(st, pc) == st # "CLOSED" /\ ~pc

FireDecisionAdmitAll(st, pc) == "admit"
FireDecision(st, pc) ==
    IF fireListenerThrows(st) THEN "throw"
    ELSE IF callRejects(st, pc) THEN "reject"
    ELSE "admit"

Remove(s, i) == SubSeq(s, 1, i - 1) \o SubSeq(s, i + 1, Len(s))

\* breaker.fire(request)
Fire ==
    /\ fireCount < MaxFires
    /\ fireCount' = fireCount + 1
    /\ LET d == FireDecision(state, pendingClose)
           w1 == Increment(window, "fires")
       IN  CASE d = "throw" ->
                  /\ window' = w1
                  /\ lastFire' = [ inState |-> state, probeInFlight |-> FALSE,
                                   outcome |-> "throw",
                                   error |-> "CircuitBreakerOpenError" ]
                  /\ UNCHANGED <<pendingClose, calls, actionCalls>>
             [] d = "reject" ->
                  /\ window' = Increment(w1, "rejects")
                  /\ lastFire' = [ inState |-> state, probeInFlight |-> calls # <<>>,
                                   outcome |-> IF FallbackRegistered
                                               THEN "fallback" ELSE "reject",
                                   error |-> IF FallbackRegistered
                                             THEN "none" ELSE "EOPENBREAKER" ]
                  /\ UNCHANGED <<pendingClose, calls, actionCalls>>
             [] OTHER ->
                  /\ Len(calls) < MaxInFlight
                  /\ window' = w1
                  /\ pendingClose' = FALSE
                  /\ calls' = Append(calls, now)
                  /\ actionCalls' = actionCalls + 1
                  /\ lastFire' = [ inState |-> state, probeInFlight |-> calls # <<>>,
                                   outcome |-> "admit", error |-> "none" ]
    /\ UNCHANGED <<svc, op, state, now, resetAt, rotateAt, openedAt, reopenedAt,
                   closedAdv>>
    /\ UNCHANGED notBreakerVars

\* The timeout timer of a call runs out this long after the call started.
CallTimeoutDouble(c) == 2 * c.timeout
CallTimeout(c) == c.timeout

\* pending timer deadlines: bucket rotation, reset timer, call timeouts
Deadlines ==
    { rotateAt } \cup (IF resetAt = NoTimer THEN {} ELSE { resetAt })
    \cup { calls[i] + CallTimeout(Cfg) : i \in 1..Len(calls) }

\* The timer with deadline d is the next to run out; the clock moves to d.
TimerDue(d) ==
    /\ \A e \in Deadlines : d <= e
    /\ d <= MaxTime
    /\ (d > now /\ state = "CLOSED") => closedAdv < MaxClosedAdvances
TimePasses(d) ==
    /\ now' = Max(now, d)
    /\ closedAdv' = IF d > now /\ state = "CLOSED" THEN closedAdv + 1 ELSE closedAdv

\* the action's promise resolves (before the call's timeout timer runs out)
SettleSuccess ==
    \E i \in 1..Len(calls) :
        /\ calls' = Remove(calls, i)
        /\ SetB(EmitSuccess(B))
        /\ UNCHANGED <<svc, op, now, rotateAt, actionCalls, fireCount, lastFire,
                       closedAdv>>
        /\ UNCHANGED notBreakerVars

\* the action's promise rejects (before the call's timeout timer runs out)
SettleError ==
    \E i \in 1..Len(calls), e \in ActionErrors :
        /\ calls' = Remove(calls, i)
        /\ SetB(handleError(B, e, now))
        /\ UNCHANGED <<svc, op, now, rotateAt, actionCalls, fireCount, lastFire,
                       closedAdv>>
        /\ UNCHANGED notBreakerVars

\* the call's timeout timer runs out: emit('timeout'), then handleError
\* with an ETIMEDOUT error; a later completion of the action is ignored
Timeout ==
    \E i \in 1..Len(calls) :
        /\ TimerDue(calls[i] + CallTimeout(Cfg))
        /\ TimePasses(calls[i] + CallTimeout(Cfg))
        /\ calls' = Remove(calls, i)
        /\ SetB(handleError(Inc(B, "timeouts"), TransportError("ETIMEDOUT"),
                            Max(now, calls[i] + CallTimeout(Cfg))))
        /\ UNCHANGED <<svc, op, rotateAt, actionCalls, fireCount, lastFire>>
        /\ UNCHANGED notBreakerVars

\* the reset timer runs out: _halfOpen
ResetTimer ==
    /\ resetAt # NoTimer
    /\ TimerDue(resetAt)
    /\ TimePasses(resetAt)
    /\ state' = "HALF_OPEN"
    /\ pendingClose' = TRUE
    /\ resetAt' = NoTimer
    /\ UNCHANGED <<svc, op, window, rotateAt, calls, actionCalls, fireCount,
                   lastFire, openedAt, reopenedAt>>
    /\ UNCHANGED notBreakerVars

\* the Status interval timer runs out: the window moves on by one bucket
Rotate ==
    /\ TimerDue(rotateAt)
    /\ TimePasses(rotateAt)
    /\ window' = NextBucket(window)
    /\ rotateAt' = rotateAt + BucketInterval
    /\ UNCHANGED <<svc, op, state, pendingClose, resetAt, calls, actionCalls,
                   fireCount, lastFire, openedAt, reopenedAt>>
    /\ UNCHANGED notBreakerVars

NoFire == [ inState |-> "none", probeInFlight |-> FALSE, outcome |-> "none",
            error |-> "none" ]

BreakerInitFor(keys) ==
    /\ \E k \in keys : svc = k[1] /\ op = k[2]
    /\ state = "CLOSED"
    /\ pendingClose = FALSE
    /\ window = [ i \in 1..getServiceConfig(svc).rollingCountBuckets |-> EmptyBucket ]
    /\ now = 0
    /\ resetAt = NoTimer
    /\ rotateAt = getServiceConfig(svc).rollingCountTimeout
                    \div getServiceConfig(svc).rollingCountBuckets
    /\ calls = <<>>
    /\ actionCalls = 0
    /\ fireCount = 0
    /\ lastFire = NoFire
    /\ openedAt = NoTimer
    /\ reopenedAt = NoTimer
    /\ closedAdv = 0

BreakerNext ==
    \/ Fire
    \/ SettleSuccess
    \/ SettleError
    \/ Timeout
    \/ ResetTimer
    \/ Rotate

----------------------------------------------------------------------------
\* Rate limiter: rateLimiterMiddleware over RateLimiterMemory

\* client identifiers (req.ip)
LimIds == { "10.0.0.1", "10.0.0.2" }

\* consume() calls explored on one key before its record expires
MaxConsumed == 7
\* the limiter's clock moves in steps of duration / StepsPerWindow
StepsPerWindow == 3
\* the limiter's clock stops after this many windows
MaxWindows == 2

\* options given to RateLimiterMemory: the budget under test
LimiterOptions == [ points |-> 5, duration |-> 60 ]
\* configured block durations explored (seconds); 60 is Config's default
BlockDurations == { 0, 60 }

LimStep == (LimiterOptions.duration * 1000) \div StepsPerWindow
MaxLimTime == MaxWindows * LimiterOptions.duration * 1000

\* RateLimiterAbstract.getKey: keyPrefix 'rlflx' and the identifier
LimKeyShared(id) == <<"rlflx", "">>
LimKey(id) == <<"rlflx", id>>

\* MemoryStorage.set: a fresh record expiring after durationSec
\* (no expiry when durationSec is 0)
StorageSet(store, key, value, durationSec) ==
    [ k \in DOMAIN store \cup { key } |->
        IF k = key
        THEN [ value |-> value,
               expiresAt |-> IF durationSec > 0 THEN limNow + durationSec * 1000
                             ELSE NoTimer ]
        ELSE store[k] ]

\* MemoryStorage.incrby: [store, res] with res the RateLimiterRes
\* (msBeforeNext, consumedPoints, isFirstInDuration)
StorageIncrby(store, key, value, durationSec) ==
    LET fresh == [ store |-> StorageSet(store, key, value, durationSec),
                   res |-> [ msBeforeNext |-> IF durationSec = 0 THEN 0 - 1
                                              ELSE durationSec * 1000,
                             consumedPoints |-> value,
                             isFirstInDuration |-> TRUE ] ]
    IN  IF key \in DOMAIN store
        THEN LET rec == store[key]
                 msBeforeExpires == IF rec.expiresAt # NoTimer
                                    THEN rec.expiresAt - limNow ELSE 0 - 1
             IN  IF rec.expiresAt = NoTimer \/ msBeforeExpires > 0
                 THEN [ store |-> [ store EXCEPT ![key].value = @ + value ],
                        res |-> [ msBeforeNext |-> msBeforeExpires,
                                  consumedPoints |-> rec.value + value,
                                  isFirstInDuration |-> FALSE ] ]
                 ELSE fresh
        ELSE fresh

\* the test that rejects a consume
OverBudgetAtLimit(consumedPoints, points) == consumedPoints >= points
OverBudget(consumedPoints, points) == consumedPoints > points

\* RateLimiterMemory.consume(key, 1): [store, res, rejected]
LimiterConsume(store, id) ==
    LET inc == StorageIncrby(store, LimKey(id), 1, LimiterOptions.duration)
    IN  IF OverBudget(inc.res.consumedPoints, LimiterOptions.points)
        THEN IF /\ limBlock > 0
                /\ inc.res.consumedPoints <= LimiterOptions.points + 1
             THEN \* block the key: the record is set anew for blockDuration
                  [ store |-> StorageSet(inc.store, LimKey(id),
                                         inc.res.consumedPoints, limBlock),
                    res |-> [ msBeforeNext |-> limBlock * 1000,
                              consumedPoints |-> inc.res.consumedPoints,
                              isFirstInDuration |-> TRUE ],
                    rejected |-> TRUE ]
             ELSE [ store |-> inc.store, res |-> inc.res, rejected |-> TRUE ]
        ELSE [ store |-> inc.store, res |-> inc.res, rejected |-> FALSE ]

\* Math.ceil(ms / 1000) for an integer ms
CeilDiv1000(ms) == IF ms % 1000 = 0 THEN ms \div 1000 ELSE ms \div 1000 + 1

\* Retry-After: msBeforeNext || 1000, then Math.max(1, Math.ceil(. / 1000))
RetrySecsNoClamp(msBeforeNext) ==
    CeilDiv1000(IF msBeforeNext = 0 THEN 1000 ELSE msBeforeNext)
RetrySecs(msBeforeNext) ==
    LET ms == IF msBeforeNext = 0 THEN 1000 ELSE msBeforeNext
    IN  Max(1, CeilDiv1000(ms))

NoOutcome == [ outcome |-> "none", retryAfter |-> 0 ]

\* rateLimiterMiddleware(req, res, next) for a request of client id, the
\* in-memory limiter being the active one
Consume(id) ==
    /\ LimKey(id) \in DOMAIN limStore =>
           limStore[LimKey(id)].value < MaxConsumed
    /\ LET c == LimiterConsume(limStore, id)
           first == c.res.isFirstInDuration /\ ~c.rejected
       IN  /\ limStore' = c.store
           /\ limCalls' = [ limCalls EXCEPT ![id] = IF first THEN 1 ELSE @ + 1 ]
           /\ IF c.rejected
              THEN /\ limLast' = [ limLast EXCEPT ![id] =
                         [ outcome |-> "TooManyRequestsError",
                           retryAfter |-> RetrySecs(c.res.msBeforeNext) ] ]
                   /\ limAdmitted' = limAdmitted
              ELSE /\ limLast' = [ limLast EXCEPT ![id] =
                         [ outcome |-> "next", retryAfter |-> 0 ] ]
                   /\ limAdmitted' =
                         [ limAdmitted EXCEPT ![id] =
                             IF first THEN 1 ELSE @ + 1 ]
    /\ UNCHANGED <<limNow, limBlock>>
    /\ UNCHANGED notLimiterVars

ConsumeAny == \E id \in LimIds : Consume(id)

\* time passes; the storage's timers delete the records that have expired
LimTick ==
    /\ limNow + LimStep <= MaxLimTime
    /\ limNow' = limNow + LimStep
    /\ limStore' = [ k \in { k \in DOMAIN limStore :
                               \/ limStore[k].expiresAt = NoTimer
                               \/ limStore[k].expiresAt > limNow + LimStep } |->
                       limStore[k] ]
    /\ UNCHANGED <<limBlock, limCalls, limAdmitted, limLast>>
    /\ UNCHANGED notLimiterVars

LimiterNext == ConsumeAny \/ LimTick

----------------------------------------------------------------------------
\* rateLimiterMiddleware around whatever consume() settles with

\* a property of the value consume() settled with: a number, or undefined
Undefined == [ defined |-> FALSE, n |-> 0 ]
Num(n) == [ defined |-> TRUE, n |-> n ]
\* a || b on such properties: undefined and 0 are falsy
JsOr(a, b) == IF a.defined /\ a.n # 0 THEN a ELSE b

\* msBeforeNext values explored (ms)
MsSamples ==
    { k * 250 : k \in (0 - 20)..40 } \cup { 30000, 45000, 59999, 60000 }

\* budgets the limiter may be configured with; 100 is Config's default
PointsBudgets == { 5, 100 }

NoSettle ==
    [ kind |-> "none", msBeforeNext |-> Undefined, totalHits |-> Undefined,
      limit |-> Undefined, remainingPoints |-> Undefined ]

\* What consume() can settle with: it resolves; it rejects with a
\* RateLimiterRes (msBeforeNext, remainingPoints 0; the class has no
\* totalHits or limit property); it rejects with an Error of the store; or
\* there is no limiter at all.
ConsumeOutcomes ==
    { [ NoSettle EXCEPT !.kind = "resolved" ],
      [ NoSettle EXCEPT !.kind = "noLimiter" ],
      [ NoSettle EXCEPT !.kind = "rejected" ] }
    \cup { [ NoSettle EXCEPT !.kind = "rejected", !.msBeforeNext = Num(ms),
                             !.remainingPoints = Num(0) ] : ms \in MsSamples }

\* the headers set in the catch branch
RejectionHeaders(rateLimiterRes) ==
    [ h \in { "Retry-After", "X-RateLimit-Limit", "X-RateLimit-Remaining" } |->
        CASE h = "Retry-After" ->
               RetrySecs(JsOr(rateLimiterRes.msBeforeNext, Num(0)).n)
          [] h = "X-RateLimit-Limit" ->
               JsOr(JsOr(rateLimiterRes.totalHits, rateLimiterRes.limit),
                    Num(100)).n
          [] OTHER -> JsOr(rateLimiterRes.remainingPoints, Num(0)).n ]

\* rateLimiterMiddleware(req, res, next), from the request to the call of
\* next
Middleware ==
    \E points \in PointsBudgets, settled \in ConsumeOutcomes :
        /\ mwPoints' = points
        /\ mwOutcome' = settled
        /\ IF settled.kind = "rejected"
           THEN /\ mwHeaders' = RejectionHeaders(settled)
                /\ mwNext' = << "TooManyRequestsError" >>
           ELSE /\ mwHeaders' = << >>
                /\ mwNext' = << "" >>
        /\ UNCHANGED notMiddlewareVars

MiddlewareNext == Middleware

----------------------------------------------------------------------------
\* Limiter initialization, reinitialization and requests in flight

\* requests explored
MaxRequests == 2
\* reinitializeRateLimiter() calls explored
MaxReinits == 1

\* config.service: the options every limiter is built with; the budget is
\* set so that the requests explored exhaust it
ServiceOptions ==
    [ points |-> 1, duration |-> 60, execEvenly |-> "false",
      blockDuration |-> 60 ]

\* how await getUnifiedCache() settles: a cache whose cache.isConnected is
\* true or false, or a rejection
CacheOutcomes == { "connected", "disconnected", "failed" }

NoRead == [ isRedis |-> FALSE, cache |-> "notAsked" ]
IdleRequest == [ pc |-> "idle", promise |-> 0, limiter |-> 0, outcome |-> "none" ]

\* the backend initializeRateLimiter ends with: Redis when the strategy is
\* redis and the cache is connected; memory otherwise, the catch branch
\* included
ChooseBackendIgnoringConnection(isRedis, cacheState) ==
    IF isRedis /\ cacheState # "failed" THEN "redis" ELSE "memory"
ChooseBackend(isRedis, cacheState) ==
    IF isRedis
    THEN IF cacheState = "failed" THEN "memory"
         ELSE IF cacheState = "connected" THEN "redis" ELSE "memory"
    ELSE "memory"

\* new RateLimiterRedis / new RateLimiterMemory with the configured options
NewLimiter(isRedis, cacheState) ==
    [ backend |-> ChooseBackend(isRedis, cacheState),
      points |-> ServiceOptions.points,
      duration |-> ServiceOptions.duration,
      execEvenly |-> ServiceOptions.execEvenly,
      blockDuration |-> ServiceOptions.blockDuration,
      consumedBy |-> << >>,
      read |-> [ isRedis |-> isRedis, cache |-> cacheState ] ]

InitializeEveryTime(lim, prom, isRedis) ==
    IF isRedis
    THEN [ rateLimiter |-> lim, initPromise |-> Len(promises) + 1,
           promises |-> Append(promises, "pending"),
           initsPending |-> initsPending \cup { Len(promises) + 1 },
           limiters |-> limiters, initRead |-> initRead ]
    ELSE [ rateLimiter |-> Len(limiters) + 1,
           initPromise |-> Len(promises) + 1,
           promises |-> Append(promises, "resolved"),
           initsPending |-> initsPending,
           limiters |-> Append(limiters, [ backend |-> "memory",
                                           points |-> ServiceOptions.points,
                                           duration |-> ServiceOptions.duration,
                                           execEvenly |-> ServiceOptions.execEvenly,
                                           blockDuration |->
                                               ServiceOptions.blockDuration,
                                           consumedBy |-> << >>,
                                           read |-> [ isRedis |-> FALSE,
                                                      cache |-> "notAsked" ] ]),
           initRead |-> [ isRedis |-> FALSE, cache |-> "notAsked" ] ]

\* initializeRateLimiterOnce() called with the limiter lim and promise
\* prom in place: [rateLimiter, initPromise, promises, initsPending,
\* limiters, initRead]. A new initialization runs up to its first await:
\* with the memory strategy it runs to its end.
initializeRateLimiterOnce(lim, prom, isRedis) ==
    IF prom # 0
    THEN [ rateLimiter |-> lim, initPromise |-> prom, promises |-> promises,
           initsPending |-> initsPending, limiters |-> limiters,
           initRead |-> initRead ]
    ELSE IF isRedis
         THEN [ rateLimiter |-> lim, initPromise |-> Len(promises) + 1,
                promises |-> Append(promises, "pending"),
                initsPending |-> initsPending \cup { Len(promises) + 1 },
                limiters |-> limiters, initRead |-> initRead ]
         ELSE [ rateLimiter |-> Len(limiters) + 1,
                initPromise |-> Len(promises) + 1,
                promises |-> Append(promises, "resolved"),
                initsPending |-> initsPending,
                limiters |-> Append(limiters,
                                    NewLimiter(FALSE, "notAsked")),
                initRead |-> [ isRedis |-> FALSE, cache |-> "notAsked" ] ]

SetInit(r) ==
    /\ rateLimiter' = r.rateLimiter /\ initPromise' = r.initPromise
    /\ promises' = r.promises /\ initsPending' = r.initsPending
    /\ limiters' = r.limiters /\ initRead' = r.initRead

\* rateLimiterMiddleware up to "await initializeRateLimiterOnce()"
RequestArrives ==
    \E r \in 1..MaxRequests, isRedis \in BOOLEAN :
        /\ requests[r].pc = "idle"
        /\ LET i == initializeRateLimiterOnce(rateLimiter, initPromise, isRedis)
           IN  /\ SetInit(i)
               /\ requests' = [ requests EXCEPT ![r].pc = "awaitInit",
                                                ![r].promise = i.initPromise ]
        /\ UNCHANGED <<redisConsumedBy, reinits>>
        /\ UNCHANGED notReinitVars

\* initializeRateLimiter resumes after await getUnifiedCache() and runs to
\* its end; its promise resolves
InitResumes ==
    \E p \in initsPending, cacheState \in CacheOutcomes :
        /\ limiters' = Append(limiters, NewLimiter(TRUE, cacheState))
        /\ rateLimiter' = Len(limiters) + 1
        /\ promises' = [ promises EXCEPT ![p] = "resolved" ]
        /\ initsPending' = initsPending \ { p }
        /\ initRead' = [ isRedis |-> TRUE, cache |-> cacheState ]
        /\ UNCHANGED <<initPromise, redisConsumedBy, requests, reinits>>
        /\ UNCHANGED notReinitVars

\* reinitializeRateLimiter() up to its await
Reinitialize ==
    \E isRedis \in BOOLEAN :
        /\ reinits < MaxReinits
        /\ reinits' = reinits + 1
        /\ SetInit(initializeRateLimiterOnce(0, 0, isRedis))
        /\ UNCHANGED <<redisConsumedBy, requests>>
        /\ UNCHANGED notReinitVars

\* what a request gets that finds no limiter: "if (!rateLimiter) return next()"
NoLimiterRejects == "TooManyRequestsError"
NoLimiterOutcome == "next"

\* the outcome of consume() for the n-th request counted by a limiter
ConsumeOutcome(n, points) ==
    IF OverBudget(n, points) THEN "TooManyRequestsError" ELSE "next"

\* the middleware resumes after the init promise resolved: without a
\* limiter the request is passed on; otherwise consume() is called on the
\* limiter now in place (the memory limiter counts the request at once)
RequestResumes ==
    \E r \in 1..MaxRequests :
        /\ requests[r].pc = "awaitInit"
        /\ promises[requests[r].promise] = "resolved"
        /\ IF rateLimiter = 0
           THEN /\ requests' = [ requests EXCEPT ![r].pc = "done",
                                                 ![r].outcome = NoLimiterOutcome ]
                /\ UNCHANGED limiters
           ELSE /\ requests' = [ requests EXCEPT ![r].pc = "consuming",
                                                 ![r].limiter = rateLimiter ]
                /\ limiters' =
                     IF limiters[rateLimiter].backend = "memory"
                     THEN [ limiters EXCEPT ![rateLimiter].consumedBy =
                                                Append(@, r) ]
                     ELSE limiters
        /\ UNCHANGED <<rateLimiter, initPromise, promises, initsPending,
                       redisConsumedBy, reinits, initRead>>
        /\ UNCHANGED notReinitVars

\* the position of request r in a sequence of requests
RECURSIVE PositionIn(_, _, _)
PositionIn(seq, r, i) ==
    IF i > Len(seq) THEN 0
    ELSE IF seq[i] = r THEN i ELSE PositionIn(seq, r, i + 1)

\* consume() settles and the middleware calls next: a memory limiter
\* answers from its own count; a Redis limiter counts the request in the
\* shared store, or fails with the store's error
RequestSettles ==
    \E r \in 1..MaxRequests, storeOk \in BOOLEAN :
        LET l == limiters[requests[r].limiter]
        IN  /\ requests[r].pc = "consuming"
            /\ IF l.backend = "memory"
               THEN /\ storeOk
                    /\ requests' =
                         [ requests EXCEPT
                             ![r].pc = "done",
                             ![r].outcome =
                                 ConsumeOutcome(PositionIn(l.consumedBy, r, 1),
                                                l.points) ]
                    /\ UNCHANGED redisConsumedBy
               ELSE IF storeOk
               THEN /\ redisConsumedBy' = Append(redisConsumedBy, r)
                    /\ requests' =
                         [ requests EXCEPT
                             ![r].pc = "done",
                             ![r].outcome =
                                 ConsumeOutcome(Len(redisConsumedBy) + 1,
                                                l.points) ]
               ELSE /\ requests' = [ requests EXCEPT
                                       ![r].pc = "done",
                                       ![r].outcome = "TooManyRequestsError" ]
                    /\ UNCHANGED redisConsumedBy
            /\ UNCHANGED <<rateLimiter, initPromise, promises, initsPending,
                           limiters, reinits, initRead>>
            /\ UNCHANGED notReinitVars

\* app.use(rateLimiterMiddleware) comes before the router: a request goes
\* on to the routes, whose controllers call breaker.fire(), exactly when
\* the middleware called next() without an error
ReachesFire(r) == requests[r].pc = "done" /\ requests[r].outcome = "next"

ReinitNext ==
    \/ RequestArrives
    \/ InitResumes
    \/ Reinitialize
    \/ RequestResumes
    \/ RequestSettles

----------------------------------------------------------------------------
\* MemoryCache

\* cache operations explored
MaxCacheOps == 4

\* Times of the cache are counted in ticks of 50 ms.
\* the default of set's ttlMs parameter: 300000 ms
DefaultTtl == 300000 \div 50
\* the longest delay a timeout can have, 2147483647 ms; setTimeout replaces
\* a delay above it, or below 1 ms, by 1 ms
TIMEOUT_MAX == 2147483647 \div 50

CacheKeys == { "key1", "key2" }
CacheValues == { "value1", "value2" }
\* ttlMs arguments explored; NoTtl stands for a call without the argument
NoTtl == 0 - 1
\* (100 ms, and 3 000 000 000 ms: about 35 days)
TtlArgs == { NoTtl, 100 \div 50, 60000000 }
\* how long the caller waits between operations: 50 ms, 150 ms, 300000 ms
WaitSamples == { 50 \div 50, 150 \div 50, DefaultTtl }

NoValue == "null"
NoSet == [ value |-> NoValue, at |-> 0, ttl |-> NoTtl, stands |-> FALSE ]
\* set: the set() standing for the key when get() ran
NoCacheRead == [ key |-> "", at |-> 0, result |-> NoValue, set |-> NoSet,
                 called |-> FALSE ]

\* the delay setTimeout(callback, ttlMs) runs with; the replacement delay
\* of 1 ms ends within the first tick
TimerDelay(ttlMs) == IF ttlMs < 1 \/ ttlMs > TIMEOUT_MAX THEN 1 ELSE ttlMs

\* the value of the ttlMs parameter for an argument
TtlParam(ttlArg) == IF ttlArg = NoTtl THEN DefaultTtl ELSE ttlArg

\* Map.delete / Map.set on a function
MapDelete(map, key) == [ k \in DOMAIN map \ { key } |-> map[k] ]
MapSet(map, key, val) ==
    [ k \in DOMAIN map \cup { key } |-> IF k = key THEN val ELSE map[k] ]

\* set(key, value, ttlMs)
CacheSet ==
    \E key \in CacheKeys, value \in CacheValues, ttlArg \in TtlArgs :
        /\ cacheOps < MaxCacheOps
        /\ cacheOps' = cacheOps + 1
        /\ cache' = MapSet(cache, key, [ value |-> value, timestamp |-> cacheNow ])
        /\ timers' = MapSet(timers, key, cacheNow + TimerDelay(TtlParam(ttlArg)))
        /\ lastSet' = [ lastSet EXCEPT ![key] =
                          [ value |-> value, at |-> cacheNow, ttl |-> ttlArg,
                            stands |-> TRUE ] ]
        /\ UNCHANGED <<stats, cacheNow, lastRead>>
        /\ UNCHANGED notCacheVars

\* get(key)
CacheGet ==
    \E key \in CacheKeys :
        /\ cacheOps < MaxCacheOps
        /\ cacheOps' = cacheOps + 1
        /\ IF key \in DOMAIN cache
           THEN /\ stats' = [ stats EXCEPT !.hits = @ + 1 ]
                /\ lastRead' = [ key |-> key, at |-> cacheNow,
                                 result |-> cache[key].value,
                                 set |-> lastSet[key], called |-> TRUE ]
           ELSE /\ stats' = [ stats EXCEPT !.misses = @ + 1 ]
                /\ lastRead' = [ key |-> key, at |-> cacheNow,
                                 result |-> NoValue,
                                 set |-> lastSet[key], called |-> TRUE ]
        /\ UNCHANGED <<cache, timers, cacheNow, lastSet>>
        /\ UNCHANGED notCacheVars

\* delete(key), called by the user
CacheDelete ==
    \E key \in CacheKeys :
        /\ cacheOps < MaxCacheOps
        /\ cacheOps' = cacheOps + 1
        /\ timers' = MapDelete(timers, key)
        /\ cache' = MapDelete(cache, key)
        /\ lastSet' = [ lastSet EXCEPT ![key].stands = FALSE ]
        /\ UNCHANGED <<stats, cacheNow, lastRead>>
        /\ UNCHANGED notCacheVars

\* clear()
CacheClear ==
    /\ cacheOps < MaxCacheOps
    /\ cacheOps' = cacheOps + 1
    /\ timers' = << >>
    /\ cache' = << >>
    /\ stats' = [ hits |-> 0, misses |-> 0 ]
    /\ lastSet' = [ k \in CacheKeys |-> [ lastSet[k] EXCEPT !.stands = FALSE ] ]
    /\ UNCHANGED <<cacheNow, lastRead>>
    /\ UNCHANGED notCacheVars

\* an expiration timer runs out, the earliest first: this.delete(key)
CacheTimerFires ==
    \E key \in DOMAIN timers :
        /\ \A k \in DOMAIN timers : timers[key] <= timers[k]
        /\ cacheNow' = Max(cacheNow, timers[key])
        /\ timers' = MapDelete(timers, key)
        /\ cache' = MapDelete(cache, key)
        /\ UNCHANGED <<stats, cacheOps, lastSet, lastRead>>
        /\ UNCHANGED notCacheVars

\* the caller waits, no longer than up to the next timer
CacheWait ==
    \E d \in WaitSamples :
        /\ cacheOps < MaxCacheOps
        /\ \A k \in DOMAIN timers : cacheNow + d <= timers[k]
        /\ cacheNow' = cacheNow + d
        /\ cacheOps' = cacheOps + 1
        /\ UNCHANGED <<cache, timers, stats, lastSet, lastRead>>
        /\ UNCHANGED notCacheVars

CacheNext ==
    \/ CacheSet
    \/ CacheGet
    \/ CacheDelete
    \/ CacheClear
    \/ CacheTimerFires
    \/ CacheWait

----------------------------------------------------------------------------
\* CacheFactory, the cache selector. CacheFactory.js is not among the
\* sources at hand: it is modelled from its documented contract (a memoized
\* asynchronous getInstance(), fallback to the memory cache when connect()
\* fails, reset()) and from the calls its tests make.
MaxFactoryOps == 5

\* getInstance() answers from the memo when a backend was selected before
IsMemoizedNever(cached) == FALSE
IsMemoized(cached) == cached # "null"

\* CacheFactory.getInstance()
FactoryGetInstance ==
    /\ fcOps < MaxFactoryOps
    /\ fcOps' = fcOps + 1
    /\ IF IsMemoized(fcCache)
       THEN /\ fcReturned' = Append(fcReturned, fcCache)
            /\ UNCHANGED <<fcCache, fcConnecting, fcWaiting, fcRedisUp>>
       ELSE IF fcConnecting
       THEN \* the selection is under way: this call waits for it as well
            /\ fcWaiting' = fcWaiting + 1
            /\ UNCHANGED <<fcCache, fcConnecting, fcReturned, fcRedisUp>>
       ELSE IF fcStrategy = "redis" /\ ~fcRedisUp
       THEN \* await globalRedisCache.connect()
            /\ fcConnecting' = TRUE /\ fcWaiting' = 1
            /\ UNCHANGED <<fcCache, fcReturned, fcRedisUp>>
       ELSE /\ fcCache' = IF fcStrategy = "redis" THEN "redis" ELSE "memory"
            /\ fcReturned' = Append(fcReturned, fcCache')
            /\ UNCHANGED <<fcConnecting, fcWaiting, fcRedisUp>>
    /\ UNCHANGED <<fcStrategy, fcConnectFails, fcWarns>>
    /\ UNCHANGED notFactoryVars

\* connect() settles: Redis is selected, or the failure is logged and the
\* memory cache is selected; the waiting calls resolve to the selection
FactoryConnectSettles ==
    /\ fcConnecting
    /\ fcConnecting' = FALSE
    /\ fcCache' = IF fcConnectFails THEN "memory" ELSE "redis"
    /\ fcRedisUp' = ~fcConnectFails
    /\ fcWarns' = IF fcConnectFails THEN fcWarns + 1 ELSE fcWarns
    /\ fcReturned' = fcReturned \o [ i \in 1..fcWaiting |-> fcCache' ]
    /\ fcWaiting' = 0
    /\ UNCHANGED <<fcStrategy, fcConnectFails, fcOps>>
    /\ UNCHANGED notFactoryVars

\* CacheFactory.reset(), between selections: _cache and _instance are null
\* again and the next getInstance() selects anew
FactoryReset ==
    /\ fcOps < MaxFactoryOps
    /\ ~fcConnecting
    /\ fcOps' = fcOps + 1
    /\ fcCache' = "null" /\ fcReturned' = << >> /\ fcWarns' = 0
    /\ UNCHANGED <<fcStrategy, fcRedisUp, fcConnectFails, fcConnecting, fcWaiting>>
    /\ UNCHANGED notFactoryVars

FactoryNext ==
    \/ FactoryGetInstance
    \/ FactoryConnectSettles
    \/ FactoryReset

----------------------------------------------------------------------------
\* The error filter applied to one error
StatusSamples ==
    { 200, 302, 399, 400, 401, 403, 404, 428, 429, 430, 499, 500, 502, 503,
      504, 599 }

\* errors handed to the filter: without a response (a code or nothing),
\* or with a response (a status, and whatever code the client set)
FilterErrors ==
    { TransportError(c) : c \in networkErrors \cup { "ERR_NETWORK", NoCode } }
    \cup { HttpError(c, n) :
             c \in { "ERR_BAD_REQUEST", "ERR_BAD_RESPONSE", "ECONNABORTED", NoCode },
             n \in StatusSamples }

FilterServices == { "weather", "authentication", "user", "payments" }

\* errorFilter(error) of the breaker created for fltService
Classify ==
    /\ fltResult = "none"
    /\ fltResult' = IF createEnhancedErrorFilter(fltService, fltError)
                    THEN "filtered" ELSE "trip"
    /\ UNCHANGED <<fltError, fltService>>
    /\ UNCHANGED notFilterVars

\* the next error arrives
NextError ==
    /\ fltResult # "none"
    /\ fltError' \in FilterErrors
    /\ fltService' \in FilterServices
    /\ fltResult' = "none"
    /\ UNCHANGED notFilterVars

FilterNext == Classify \/ NextError

----------------------------------------------------------------------------
\* The breaker registry: getCircuitBreakerInstance
\* Object.keys(Config.getInstance().services)
ConfigServices == { "weather" }

\* arguments explored: "" stands for a missing service name, "null" for
\* the default action = null
GetServices == { "", "weather", "user" }
GetOperationTypes == { "default", "search" }
GetActions == { "null", "action1", "action2" }

\* a map value: null, or a breaker object (id: which object it is) with the
\* options it was constructed with
NoConfig ==
    [ errorThresholdPercentage |-> 0, timeout |-> 0, resetTimeout |-> 0,
      rollingCountTimeout |-> 0, rollingCountBuckets |-> 0,
      volumeThreshold |-> 0 ]

NoFallback == [ kind |-> "none" ]
NullEntry == [ null |-> TRUE, id |-> 0, action |-> "null", service |-> "",
               operationType |-> "", config |-> NoConfig,
               fallback |-> NoFallback ]

NoGet == [ action |-> "null", service |-> "", operationType |-> "",
           threw |-> "none", value |-> NullEntry, called |-> FALSE ]

\* instanceKey: `${service}-${operationType}`, or the service alone
InstanceKey(service, operationType) ==
    IF operationType # "default" THEN <<service, "-", operationType>>
    ELSE <<service>>

\* initializeBreakerInstances: an empty map gets a null entry under every
\* configured service name
initializeBreakerInstances(map) ==
    IF DOMAIN map = {}
    THEN [ k \in { <<service>> : service \in { c \in ConfigServices : c # "" } }
             |-> NullEntry ]
    ELSE map

\* "if (service)": a service name was given
ServiceGivenAlways(service) == TRUE
ServiceGiven(service) == service # ""

\* breakerInstances.has(instanceKey)
HasInstanceNever(map, key) == FALSE
HasInstance(map, key) == key \in DOMAIN map

\* getCircuitBreakerInstance(action, service, operationType):
\* [map, threw, value, constructed]
getCircuitBreakerInstance(map, action, service, operationType) ==
    IF ~ServiceGiven(service)
    THEN [ map |-> map, threw |-> "Service name is required",
           value |-> NullEntry, constructed |-> FALSE ]
    ELSE LET key == InstanceKey(service, operationType)
             m1 == initializeBreakerInstances(map)
         IN  IF ~HasInstance(m1, key) /\ action = "null"
             THEN \* new CircuitBreaker(null, options) throws
                  [ map |-> m1, threw |-> "TypeError: No action provided",
                    value |-> NullEntry, constructed |-> FALSE ]
             ELSE LET m2 == IF ~HasInstance(m1, key)
                            THEN [ k \in DOMAIN m1 \cup { key } |->
                                     IF k = key
                                     THEN [ null |-> FALSE, id |-> created + 1,
                                            action |-> action,
                                            service |-> service,
                                            operationType |-> operationType,
                                            config |-> getServiceConfig(service),
                                            fallback |->
                                              getFallbackFunction(service,
                                                                  operationType) ]
                                     ELSE m1[k] ]
                            ELSE m1
                      m3 == IF action # "null" /\ ~m2[key].null
                            THEN [ m2 EXCEPT ![key].action = action ]
                            ELSE m2
                  IN  [ map |-> m3, threw |-> "none", value |-> m3[key],
                        constructed |-> ~HasInstance(m1, key) ]

\* getCircuitBreakerHealth(): the null entries are left out; breaker.opened
\* and breaker.halfOpen are read from the breaker's state
getCircuitBreakerHealth(map, states) ==
    [ k \in { j \in DOMAIN map : ~map[j].null } |->
        [ state |-> IF states[k] = "OPEN" THEN "OPEN"
                    ELSE IF states[k] = "HALF_OPEN" THEN "HALF_OPEN"
                    ELSE "CLOSED",
          options |-> map[k].config ] ]

\* the body the route answers with for a health object
NoReport == [ status |-> "none" ]
CircuitBreakersRouteHalfOpenFirst(health) ==
    LET Count(st) == Cardinality({ k \in DOMAIN health : health[k].state = st })
    IN  [ status |-> IF Count("HALF_OPEN") > 0 THEN "recovering"
                     ELSE IF Count("OPEN") > 0 THEN "degraded"
                     ELSE "healthy",
          circuit_breakers |-> health,
          summary |-> [ total |-> Cardinality(DOMAIN health),
                        open |-> Count("OPEN"),
                        half_open |-> Count("HALF_OPEN"),
                        closed |-> Count("CLOSED") ] ]
CircuitBreakersRoute(health) ==
    LET hasOpenCircuits == \E k \in DOMAIN health : health[k].state = "OPEN"
        hasHalfOpenCircuits ==
            \E k \in DOMAIN health : health[k].state = "HALF_OPEN"
        Count(st) == Cardinality({ k \in DOMAIN health : health[k].state = st })
    IN  [ status |-> IF hasOpenCircuits THEN "degraded"
                     ELSE IF hasHalfOpenCircuits THEN "recovering"
                     ELSE "healthy",
          circuit_breakers |-> health,
          summary |-> [ total |-> Cardinality(DOMAIN health),
                        open |-> Count("OPEN"),
                        half_open |-> Count("HALF_OPEN"),
                        closed |-> Count("CLOSED") ] ]

GetInstance ==
    \E action \in GetActions, service \in GetServices,
       operationType \in GetOperationTypes :
        LET r == getCircuitBreakerInstance(breakerInstances, action, service,
                                           operationType)
        IN  /\ breakerInstances' = r.map
            /\ created' = IF r.constructed THEN created + 1 ELSE created
            /\ lastGet' = [ action |-> action, service |-> service,
                            operationType |-> operationType,
                            threw |-> r.threw, value |-> r.value,
                            called |-> TRUE ]
            /\ breakerStates' =
                 [ k \in { j \in DOMAIN r.map : ~r.map[j].null } |->
                     IF k \in DOMAIN breakerStates THEN breakerStates[k]
                     ELSE "CLOSED" ]
            /\ healthReport' = NoReport
            /\ UNCHANGED notRegistryVars

\* a breaker of the registry moves on in its state machine: it opens, its
\* reset timer makes it half-open, the probe closes or reopens it
BreakerChangesState ==
    \E k \in DOMAIN breakerStates, t \in { "CLOSED", "OPEN", "HALF_OPEN" } :
        /\ <<breakerStates[k], t>> \in
               { <<"CLOSED", "OPEN">>, <<"OPEN", "HALF_OPEN">>,
                 <<"HALF_OPEN", "CLOSED">>, <<"HALF_OPEN", "OPEN">> }
        /\ breakerStates' = [ breakerStates EXCEPT ![k] = t ]
        /\ healthReport' = NoReport
        /\ UNCHANGED <<breakerInstances, created, lastGet>>
        /\ UNCHANGED notRegistryVars

\* GET /circuit-breakers
HealthRequest ==
    /\ healthReport = NoReport
    /\ healthReport' =
         CircuitBreakersRoute(getCircuitBreakerHealth(breakerInstances,
                                                      breakerStates))
    /\ UNCHANGED <<breakerInstances, created, lastGet, breakerStates>>
    /\ UNCHANGED notRegistryVars

RegistryNext ==
    \/ GetInstance
    \/ BreakerChangesState
    \/ HealthRequest

----------------------------------------------------------------------------
\* Fallback resolution: getFallbackFunction for one (service, operationType)
FallbackServices ==
    { "weather", "authentication", "user", "payments", "notification", "" }

FallbackOperations ==
    { "search", "getWeatherByCity", "getWeatherByCityName", "getBulkWeather",
      "authorize", "login", "register", "logout", "assignRole", "default",
      "forecast", "refresh" }

\* a breaker is about to be built for (service, operationType)
FallbackRequest ==
    /\ fbProducer' = NoFallback
    /\ fbService' \in FallbackServices
    /\ fbOperation' \in FallbackOperations
    /\ UNCHANGED notFallbackVars

\* fallback: getFallbackFunction(service, operationType)
FallbackResolve ==
    /\ fbProducer = NoFallback
    /\ fbProducer' = getFallbackFunction(fbService, fbOperation)
    /\ UNCHANGED <<fbService, fbOperation>>
    /\ UNCHANGED notFallbackVars

FallbackNext == FallbackRequest \/ FallbackResolve

----------------------------------------------------------------------------
\* Idle values of the parts a specification does not exercise
FactoryIdle ==
    /\ fcStrategy = "memory" /\ fcRedisUp = FALSE /\ fcConnectFails = FALSE
    /\ fcCache = "null" /\ fcConnecting = FALSE /\ fcWaiting = 0
    /\ fcReturned = << >> /\ fcWarns = 0 /\ fcOps = 0

LimiterIdle ==
    /\ limStore = <<>> /\ limNow = 0 /\ limBlock = 0
    /\ limCalls = <<>> /\ limAdmitted = <<>> /\ limLast = <<>>

FilterIdle ==
    /\ fltError = TransportError(NoCode) /\ fltService = "weather"
    /\ fltResult = "none"

CacheIdle ==
    /\ cache = << >> /\ timers = << >> /\ stats = [ hits |-> 0, misses |-> 0 ]
    /\ cacheNow = 0 /\ cacheOps = 0
    /\ lastSet = [ k \in CacheKeys |-> NoSet ] /\ lastRead = NoCacheRead

ReinitIdle ==
    /\ rateLimiter = 0 /\ initPromise = 0 /\ promises = << >>
    /\ initsPending = {} /\ limiters = << >> /\ redisConsumedBy = << >>
    /\ requests = [ r \in 1..MaxRequests |-> IdleRequest ]
    /\ reinits = 0 /\ initRead = NoRead

MiddlewareIdle ==
    /\ mwPoints = 100 /\ mwOutcome = NoSettle
    /\ mwHeaders = << >> /\ mwNext = << >>

FallbackIdle ==
    fbService = "" /\ fbOperation = "default" /\ fbProducer = NoFallback

RegistryIdle ==
    /\ breakerInstances = <<>> /\ created = 0 /\ lastGet = NoGet
    /\ breakerStates = <<>> /\ healthReport = NoReport

\* a breaker of the authentication profile (volumeThreshold 5)
InitBreaker ==
    /\ BreakerInitFor(BreakerKeys)
    /\ LimiterIdle /\ FilterIdle /\ RegistryIdle /\ FallbackIdle
    /\ MiddlewareIdle /\ ReinitIdle /\ CacheIdle /\ FactoryIdle
SpecBreaker == InitBreaker /\ [][BreakerNext]_vars

\* a breaker of the user profile (volumeThreshold 8)
InitUser ==
    /\ BreakerInitFor(UserKeys)
    /\ LimiterIdle /\ FilterIdle /\ RegistryIdle /\ FallbackIdle
    /\ MiddlewareIdle /\ ReinitIdle /\ CacheIdle /\ FactoryIdle
SpecUser == InitUser /\ [][BreakerNext]_vars

\* a breaker of the weather profile (volumeThreshold 10)
InitWeather ==
    /\ BreakerInitFor(WeatherKeys)
    /\ LimiterIdle /\ FilterIdle /\ RegistryIdle /\ FallbackIdle
    /\ MiddlewareIdle /\ ReinitIdle /\ CacheIdle /\ FactoryIdle
SpecWeather == InitWeather /\ [][BreakerNext]_vars

\* the rate limiter with points 5, duration 60 s
InitLimiter ==
    /\ BreakerInitFor(WeatherKeys)
    /\ FilterIdle /\ RegistryIdle /\ FallbackIdle /\ MiddlewareIdle
    /\ ReinitIdle /\ CacheIdle /\ FactoryIdle
    /\ limStore = <<>> /\ limNow = 0
    /\ limBlock \in BlockDurations
    /\ limCalls = [ id \in LimIds |-> 0 ]
    /\ limAdmitted = [ id \in LimIds |-> 0 ]
    /\ limLast = [ id \in LimIds |-> NoOutcome ]
SpecLimiter == InitLimiter /\ [][LimiterNext]_vars

\* the error filter over every error and service explored
InitFilter ==
    /\ BreakerInitFor(WeatherKeys)
    /\ LimiterIdle /\ RegistryIdle /\ FallbackIdle /\ MiddlewareIdle
    /\ ReinitIdle /\ CacheIdle /\ FactoryIdle
    /\ fltError \in FilterErrors /\ fltService \in FilterServices
    /\ fltResult = "none"
SpecFilter == InitFilter /\ [][FilterNext]_vars

\* fallback resolution over every service and operation explored
InitFallback ==
    /\ BreakerInitFor(WeatherKeys)
    /\ LimiterIdle /\ FilterIdle /\ RegistryIdle /\ FallbackIdle
    /\ MiddlewareIdle /\ ReinitIdle /\ CacheIdle /\ FactoryIdle
SpecFallback == InitFallback /\ [][FallbackNext]_vars

\* the middleware over every outcome of consume() explored
InitMiddleware ==
    /\ BreakerInitFor(WeatherKeys)
    /\ LimiterIdle /\ FilterIdle /\ RegistryIdle /\ FallbackIdle
    /\ MiddlewareIdle /\ ReinitIdle /\ CacheIdle /\ FactoryIdle
SpecMiddleware == InitMiddleware /\ [][MiddlewareNext]_vars

\* the limiter module as loaded: no limiter, no init promise, no request
InitReinit ==
    /\ BreakerInitFor(WeatherKeys)
    /\ LimiterIdle /\ FilterIdle /\ RegistryIdle /\ FallbackIdle
    /\ MiddlewareIdle /\ ReinitIdle /\ CacheIdle /\ FactoryIdle
SpecReinit == InitReinit /\ [][ReinitNext]_vars

\* a MemoryCache just constructed
InitCache ==
    /\ BreakerInitFor(WeatherKeys)
    /\ LimiterIdle /\ FilterIdle /\ RegistryIdle /\ FallbackIdle
    /\ MiddlewareIdle /\ ReinitIdle /\ CacheIdle /\ FactoryIdle
SpecCache == InitCache /\ [][CacheNext]_vars

\* the cache selector before its first getInstance(), under every
\* configured strategy, state of the Redis connection and way connect() ends
InitFactory ==
    /\ BreakerInitFor(WeatherKeys)
    /\ LimiterIdle /\ FilterIdle /\ RegistryIdle /\ FallbackIdle
    /\ MiddlewareIdle /\ ReinitIdle /\ CacheIdle
    /\ fcStrategy \in { "memory", "redis", "unknown" }
    /\ fcRedisUp \in BOOLEAN /\ fcConnectFails \in BOOLEAN
    /\ fcCache = "null" /\ fcConnecting = FALSE /\ fcWaiting = 0
    /\ fcReturned = << >> /\ fcWarns = 0 /\ fcOps = 0
SpecFactory == InitFactory /\ [][FactoryNext]_vars

\* the registry, from the empty map of a fresh process
InitRegistry ==
    /\ BreakerInitFor(WeatherKeys)
    /\ LimiterIdle /\ FilterIdle /\ RegistryIdle /\ FallbackIdle
    /\ MiddlewareIdle /\ ReinitIdle /\ CacheIdle /\ FactoryIdle
SpecRegistry == InitRegistry /\ [][RegistryNext]_vars

----------------------------------------------------------------------------
\* Claims about the breaker

\* C1: weather profile (volumeThreshold 10, errorThresholdPercentage 60),
\* breaker starting CLOSED: once 10 fire() calls have completed within one
\* rolling window, the breaker is OPEN if at least 6 of them failed with a
\* circuit-tripping error and CLOSED if at most 5 did.
C1_ThresholdOpens ==
    ( /\ svc = "weather"
      /\ fireCount = 10 /\ actionCalls = 10 /\ calls = <<>>
      /\ Stats.fires = 10 /\ Stats.successes + Stats.failures = 10
      /\ state # "HALF_OPEN" )
    => /\ Stats.failures >= 6 => state = "OPEN"
       /\ Stats.failures <= 5 => state = "CLOSED"

\* C2: a fire() made while the breaker is OPEN never invokes the downstream
\* action: the action's call count does not change while the breaker is
\* OPEN.
C2_NoActionWhileOpen ==
    [][state = "OPEN" => actionCalls' = actionCalls]_vars
C2_Witness ==
    lastFire.inState = "OPEN" /\ state = "OPEN" /\ actionCalls > 0

\* C3: while the breaker is OPEN every fire() yields the fallback
\* registered for the breaker's (service, operationType); in particular the
\* 11th fire() after 10 transport-error failures on weather/search does.
C3_OpenYieldsFallback ==
    lastFire.inState = "OPEN" => lastFire.outcome = "fallback"

\* C4: a breaker that entered OPEN stays OPEN until resetTimeout has elapsed
\* since it entered OPEN; it then becomes HALF_OPEN, and the first fire()
\* after that is passed through to the action.
C4_OpenUntilReset ==
    [][ /\ state = "OPEN" =>
            /\ resetAt = openedAt + Cfg.resetTimeout
            /\ \/ state' = "OPEN" /\ now' <= resetAt
               \/ /\ state' = "HALF_OPEN" /\ pendingClose'
                  /\ now' >= openedAt + Cfg.resetTimeout
        /\ (state = "HALF_OPEN" /\ pendingClose /\ fireCount' > fireCount) =>
            /\ actionCalls' = actionCalls + 1
            /\ lastFire'.outcome = "admit" ]_vars
C4_Witness ==
    /\ state = "HALF_OPEN" /\ ~pendingClose /\ Len(calls) = 1
    /\ lastFire.inState = "HALF_OPEN" /\ lastFire.outcome = "admit"

\* C5 (as stated): when the call admitted in HALF_OPEN succeeds the breaker
\* becomes CLOSED and its rolling stats are cleared, so that failures
\* recorded before it opened no longer count.
C5_StatsCleared ==
    [][(state = "HALF_OPEN" /\ state' = "CLOSED") =>
           /\ StatsOf(window').failures = 0
           /\ StatsOf(window').fires = 0]_vars

\* C5 (amended): when the call admitted in HALF_OPEN succeeds the breaker
\* becomes CLOSED and the reset timer is cleared; the rolling stats are
\* kept (only the success is added), so failures recorded before the
\* breaker opened still count while they are in the rolling window.
C5_ClosesKeepingStats ==
    [][(state = "HALF_OPEN" /\ Len(calls') < Len(calls)) =>
           \/ /\ state' = "OPEN"
              /\ StatsOf(window').failures = Stats.failures + 1
              /\ StatsOf(window').successes = Stats.successes
           \/ /\ state' = "CLOSED" /\ ~pendingClose' /\ resetAt' = NoTimer
              /\ StatsOf(window').successes = Stats.successes + 1
              /\ \A f \in StatFields \ { "successes" } :
                     StatsOf(window')[f] = Stats[f]]_vars
C5_Witness ==
    /\ state = "CLOSED" /\ openedAt # NoTimer /\ calls = <<>>
    /\ Stats.failures >= Cfg.volumeThreshold

\* C6: when the call admitted in HALF_OPEN fails (with a circuit-tripping
\* error or by timing out) the breaker returns to OPEN and the reset timer
\* restarts: no call is passed to the action until a full resetTimeout has
\* elapsed since that failure.
C6_ProbeFailureReopens ==
    [][ /\ (state = "HALF_OPEN" /\ StatsOf(window').failures > Stats.failures) =>
            /\ state' = "OPEN"
            /\ reopenedAt' = now'
            /\ resetAt' = now' + Cfg.resetTimeout
        /\ actionCalls' > actionCalls =>
            (reopenedAt = NoTimer \/ now >= reopenedAt + Cfg.resetTimeout) ]_vars
C6_Witness ==
    /\ reopenedAt # NoTimer /\ lastFire.outcome = "admit" /\ calls # <<>>
    /\ now >= reopenedAt + Cfg.resetTimeout

\* C7: while the breaker is HALF_OPEN and the admitted probe has not yet
\* settled, every other fire() is rejected with the fallback without
\* invoking the action, so at most one action invocation is in flight for a
\* HALF_OPEN breaker.
C7_ProbeSerialized ==
    /\ state = "HALF_OPEN" => Len(calls) <= 1
    /\ (lastFire.inState = "HALF_OPEN" /\ lastFire.probeInFlight) =>
           lastFire.outcome = "fallback"

\* Part of C7 the breaker does keep: one probe at a time, the others are
\* turned away (with the EOPENBREAKER error) without invoking the action.
C7_OneProbeOthersRejected ==
    /\ state = "HALF_OPEN" => Len(calls) <= 1
    /\ (lastFire.inState = "HALF_OPEN" /\ lastFire.probeInFlight) =>
           lastFire.outcome = "reject"

\* C14: every fire() passed through to the action settles no later than
\* the profile's timeout after it started, and a call that exceeds the
\* timeout is recorded as a failure that counts towards opening the breaker
\* like any circuit-tripping error.
C14_TimeoutBoundsCall ==
    [][ /\ \A i \in 1..Len(calls') :
             now' <= calls'[i] + getServiceConfig(svc).timeout
        /\ StatsOf(window').timeouts = Stats.timeouts + 1 =>
             /\ Len(calls') = Len(calls) - 1
             /\ \E i \in 1..Len(calls) :
                    now' = calls[i] + getServiceConfig(svc).timeout
             /\ StatsOf(window').failures = Stats.failures + 1
             /\ StatsOf(window').successes = Stats.successes
             /\ ( \/ state = "HALF_OPEN"
                  \/ /\ Stats.fires >= getServiceConfig(svc).volumeThreshold
                     /\ (Stats.failures + 1) * 100 >
                          getServiceConfig(svc).errorThresholdPercentage
                          * Stats.fires )
                => state' = "OPEN" ]_vars
C14_Witness ==
    /\ state = "OPEN" /\ calls = <<>>
    /\ Stats.timeouts = 2 /\ Stats.failures = Stats.fires
    /\ openedAt = getServiceConfig(svc).timeout /\ now = openedAt

----------------------------------------------------------------------------
\* Claims about the rate limiter

\* C8: with points 5 and duration 60 s, under any interleaving of requests
\* of several identifiers within one window, an identifier's first 5
\* requests are admitted and its 6th (and later) rejected with
\* retryAfterSeconds >= 1, whatever the other identifiers do.
C8_FivePerIdentifier ==
    \A id \in LimIds :
        /\ limAdmitted[id] = Min(limCalls[id], 5)
        /\ (limCalls[id] >= 1 /\ limCalls[id] <= 5) => limLast[id].outcome = "next"
        /\ limCalls[id] >= 6 =>
               /\ limLast[id].outcome = "TooManyRequestsError"
               /\ limLast[id].retryAfter >= 1
C8_Witness ==
    /\ limCalls["10.0.0.1"] = 6
    /\ limLast["10.0.0.1"].outcome = "TooManyRequestsError"
    /\ limAdmitted["10.0.0.1"] = 5
    /\ limCalls["10.0.0.2"] = 2
    /\ limLast["10.0.0.2"].outcome = "next"
    /\ limNow < 60000

----------------------------------------------------------------------------
\* Claims about the error filter

\* The decision table of the claim: does the error trip the circuit?
C9_TableTrips(error) ==
    IF ~error.hasResponse /\ error.code \in
           { "ECONNABORTED", "ECONNREFUSED", "EOPENBREAKER", "ETIMEDOUT",
             "ENETUNREACH", "EHOSTUNREACH", "ENOTFOUND" } THEN TRUE
    ELSE IF error.hasResponse /\ error.status >= 500 THEN TRUE
    ELSE IF error.hasResponse /\ error.status = 429 THEN TRUE
    ELSE IF error.hasResponse /\ error.status >= 400 /\ error.status <= 499
         THEN FALSE
    ELSE TRUE

\* C9: for every error and service name the filter's decision equals the
\* decision table evaluated in order: transport codes trip, status >= 500
\* trips, 429 trips, any other 4xx does not, anything else trips.
C9_FilterFollowsTable ==
    fltResult # "none" => (fltResult = "trip" <=> C9_TableTrips(fltError))
C9_Witness ==
    /\ fltResult = "trip" /\ fltError.hasResponse /\ fltError.status = 429
    /\ fltService = "authentication"

----------------------------------------------------------------------------
\* Claims about the registry

\* C10: for every non-empty service name, a key of the configured services
\* table included, getCircuitBreakerInstance(action, service) with
\* operationType omitted returns a breaker instance, never null.
C10_TwoArgCallReturnsBreaker ==
    ( /\ lastGet.called /\ lastGet.service # ""
      /\ lastGet.operationType = "default" /\ lastGet.action # "null" )
    => (lastGet.threw = "none" /\ ~lastGet.value.null)

\* C11: after any sequence of getCircuitBreakerInstance calls the registry
\* holds at most one breaker per key, a key's breaker once created is never
\* replaced or removed, and every call with the same (service,
\* operationType) returns the same instance.
C11_OnePerKeyNeverReplaced ==
    [][ /\ \A k \in DOMAIN breakerInstances :
             ~breakerInstances[k].null =>
                 /\ k \in DOMAIN breakerInstances'
                 /\ ~breakerInstances'[k].null
                 /\ breakerInstances'[k].id = breakerInstances[k].id
        /\ \A k1, k2 \in DOMAIN breakerInstances' :
             ( /\ ~breakerInstances'[k1].null /\ ~breakerInstances'[k2].null
               /\ breakerInstances'[k1].id = breakerInstances'[k2].id )
             => k1 = k2
        /\ \A k \in DOMAIN breakerInstances :
             ( /\ ~breakerInstances[k].null
               /\ breakerInstances[k].service = lastGet'.service
               /\ breakerInstances[k].operationType = lastGet'.operationType
               /\ lastGet'.service # "" )
             => /\ lastGet'.threw = "none"
                /\ lastGet'.value.id = breakerInstances[k].id
                /\ created' = created ]_vars
C11_Witness ==
    /\ lastGet.threw = "none" /\ ~lastGet.value.null
    /\ created >= 2 /\ lastGet.value.id = 1
    /\ lastGet.action = "action2" /\ lastGet.value.action = "action2"

\* C13: breaker creation fails fast with an error and adds nothing to the
\* registry when the service name is missing or empty, and
\* getCircuitBreakerInstance never returns a breaker built without a
\* profile.
C13_FailFastWithoutProfile ==
    [][ /\ (lastGet'.called /\ lastGet'.service = "") =>
             /\ lastGet'.threw # "none"
             /\ breakerInstances' = breakerInstances /\ created' = created
        /\ \A k \in DOMAIN breakerInstances' :
             ~breakerInstances'[k].null =>
                 /\ breakerInstances'[k].service # ""
                 /\ \E n \in DOMAIN SERVICE_CONFIGS :
                        breakerInstances'[k].config = SERVICE_CONFIGS[n]
        /\ (lastGet'.threw = "none" /\ ~lastGet'.value.null) =>
               \E n \in DOMAIN SERVICE_CONFIGS :
                   lastGet'.value.config = SERVICE_CONFIGS[n] ]_vars
C13_Witness ==
    /\ lastGet.called /\ lastGet.service = ""
    /\ lastGet.threw = "Service name is required"
    /\ created >= 1 /\ DOMAIN breakerInstances # {}

----------------------------------------------------------------------------
\* Claims about fallback resolution

\* the producer a service falls back to for an operation it has no entry for
C12_ServiceDefault ==
    [ weather |-> "search", authentication |-> "authorize",
      user |-> "assignRole" ]

\* C12: fallback resolution is total and follows the order exact (service,
\* operationType), then the service's default producer, then the global
\* default returning success=false, fallback=true, 'Service temporarily
\* unavailable'.
C12_FallbackLookupOrder ==
    fbProducer # NoFallback =>
        fbProducer =
            IF fbService \in DOMAIN FALLBACK_STRATEGIES
            THEN IF fbOperation \in DOMAIN FALLBACK_STRATEGIES[fbService]
                 THEN FALLBACK_STRATEGIES[fbService][fbOperation]
                 ELSE FALLBACK_STRATEGIES[fbService][C12_ServiceDefault[fbService]]
            ELSE [ kind |-> "value", success |-> FALSE, fallback |-> TRUE,
                   message |-> "Service temporarily unavailable",
                   data |-> "undefined" ]
C12_Witness ==
    /\ fbService = "authentication" /\ fbOperation = "forecast"
    /\ fbProducer = [ kind |-> "throw", error |-> "AuthenticationUnavailableError" ]

----------------------------------------------------------------------------
\* Claims about the rate limiter middleware

\* C15: for every integer msBeforeNext the Retry-After value is
\* ceil(msBeforeNext / 1000) when msBeforeNext > 0 and 1 when it is zero,
\* negative or missing; it is never less than 1.
C15_RetryAfterCeilClamped ==
    mwOutcome.kind = "rejected" =>
        LET ms == mwOutcome.msBeforeNext
            ra == mwHeaders["Retry-After"]
        IN  /\ ra >= 1
            /\ IF ms.defined /\ ms.n > 0
               THEN ra * 1000 >= ms.n /\ (ra - 1) * 1000 < ms.n
               ELSE ra = 1
C15_Witness ==
    /\ mwOutcome.kind = "rejected"
    /\ mwOutcome.msBeforeNext = Num(0 - 1000)
    /\ mwHeaders["Retry-After"] = 1

\* C16: whenever consume() rejects, the middleware sets Retry-After,
\* X-RateLimit-Limit (the configured points budget) and
\* X-RateLimit-Remaining (0) and calls next exactly once, with a
\* TooManyRequestsError.
C16_RejectionHeaders ==
    mwOutcome.kind = "rejected" =>
        /\ DOMAIN mwHeaders =
               { "Retry-After", "X-RateLimit-Limit", "X-RateLimit-Remaining" }
        /\ mwHeaders["X-RateLimit-Limit"] = mwPoints
        /\ mwHeaders["X-RateLimit-Remaining"] = 0
        /\ mwNext = << "TooManyRequestsError" >>

----------------------------------------------------------------------------
\* Claims about limiter initialization and swap

\* C17: after an initialization or reinitialization completes, the active
\* limiter is the Redis-backed one exactly when the cache strategy is redis
\* and the unified cache reports connected; in every other case, obtaining
\* the cache failing included, it is the in-memory limiter built with the
\* same points, duration, execEvenly and blockDuration.
C17_BackendSelection ==
    [][ Len(limiters') = Len(limiters) + 1 =>
          LET l == limiters'[Len(limiters')]
          IN  /\ rateLimiter' = Len(limiters')
              /\ l.backend \in { "redis", "memory" }
              /\ l.backend = "redis" <=>
                     (initRead'.isRedis /\ initRead'.cache = "connected")
              /\ l.points = ServiceOptions.points
              /\ l.duration = ServiceOptions.duration
              /\ l.execEvenly = ServiceOptions.execEvenly
              /\ l.blockDuration = ServiceOptions.blockDuration ]_vars
C17_Witness ==
    /\ reinits >= 1 /\ rateLimiter # 0 /\ rateLimiter = Len(limiters)
    /\ limiters[rateLimiter].backend = "memory"
    /\ initRead = [ isRedis |-> TRUE, cache |-> "failed" ]
    /\ \E i \in 1..Len(limiters) : limiters[i].backend = "redis"

\* C18: reinitializeRateLimiter() swaps the active limiter without
\* rejecting any in-flight request: a request whose consume() started
\* against the previous limiter completes against that limiter, and no
\* request receives a TooManyRequestsError merely because a
\* reinitialization ran concurrently with it.
C18_SwapKeepsInFlight ==
    \A r \in 1..MaxRequests :
        requests[r].pc = "done" =>
            IF requests[r].limiter = 0
            THEN requests[r].outcome = "next"
            ELSE LET l == limiters[requests[r].limiter]
                     n == PositionIn(l.consumedBy, r, 1)
                 IN  l.backend = "memory" =>
                         /\ n >= 1
                         /\ \A i \in 1..Len(limiters) :
                                i # requests[r].limiter =>
                                    PositionIn(limiters[i].consumedBy, r, 1) = 0
                         /\ requests[r].outcome =
                                IF n > l.points THEN "TooManyRequestsError"
                                ELSE "next"
C18_Witness ==
    \E r \in 1..MaxRequests :
        /\ requests[r].pc = "done" /\ requests[r].outcome = "next"
        /\ requests[r].limiter # 0 /\ rateLimiter # 0
        /\ requests[r].limiter # rateLimiter
        /\ limiters[requests[r].limiter].backend = "memory"
        /\ \E q \in 1..MaxRequests :
               /\ requests[q].pc = "done" /\ requests[q].limiter = 0

----------------------------------------------------------------------------
\* Claims about MemoryCache

\* C19: after set(k, v, ttl), get(k) returns v at every time before ttl has
\* elapsed (absent an intervening delete, clear or set of k), and returns
\* null once ttl has elapsed.
C19_TtlExpiry ==
    ( /\ lastRead.called
      /\ lastRead.set.stands /\ lastRead.set.ttl # NoTtl )
    => IF lastRead.at < lastRead.set.at + lastRead.set.ttl
       THEN lastRead.result = lastRead.set.value
       ELSE lastRead.result = NoValue

\* C20: an entry stored by set(k, v) with no TTL argument never expires:
\* get(k) returns v at every later time until k is deleted, cleared or set
\* again.
C20_NoTtlNeverExpires ==
    ( /\ lastRead.called
      /\ lastRead.set.stands /\ lastRead.set.ttl = NoTtl )
    => lastRead.result = lastRead.set.value

----------------------------------------------------------------------------
\* C24: the listeners put on a breaker only log: with them in place every
\* fire() still ends as the breaker's own call path decides (rejected when
\* the breaker is not closed and no probe is due, passed to the action
\* otherwise), and the fire is counted as the breaker counts it.
C24_ListenersOnlyLog ==
    [][ fireCount' = fireCount + 1 =>
          /\ lastFire'.outcome =
               IF callRejects(state, pendingClose)
               THEN (IF FallbackRegistered THEN "fallback" ELSE "reject")
               ELSE "admit"
          /\ StatsOf(window').rejects =
               Stats.rejects + (IF callRejects(state, pendingClose) THEN 1 ELSE 0)
      ]_vars

\* C25: the breaker starts CLOSED and its state changes only along
\* CLOSED -> OPEN, OPEN -> HALF_OPEN, HALF_OPEN -> CLOSED and
\* HALF_OPEN -> OPEN.
C25_StateMachine ==
    /\ state = "CLOSED"
    /\ [][ state' # state =>
              <<state, state'>> \in { <<"CLOSED", "OPEN">>, <<"OPEN", "HALF_OPEN">>,
                                      <<"HALF_OPEN", "CLOSED">>,
                                      <<"HALF_OPEN", "OPEN">> } ]_vars
\* a breaker that opened, failed its probe, reopened and closed later
C25_Witness ==
    /\ state = "CLOSED" /\ reopenedAt # NoTimer /\ calls = <<>>

\* C26: unless the rolling window moves on by a bucket, no stats counter
\* decreases; in particular a change of state lowers no counter.
C26_CountersMonotone ==
    [][ (rotateAt' = rotateAt \/ state' # state) =>
            \A f \in StatFields : StatsOf(window')[f] >= Stats[f] ]_vars
C26_Witness ==
    /\ state = "CLOSED" /\ openedAt # NoTimer
    /\ Stats.successes >= 1 /\ Stats.rejects + Stats.failures >= 1
    /\ Stats.fires > Stats.failures

\* C30: the filter's decision does not depend on the service name: for
\* every error the filter created for any service, 'authentication'
\* included, decides as the filter of every other service does.
C30_ServiceNameIrrelevant ==
    fltResult # "none" =>
        \A s \in FilterServices :
            (fltResult = "filtered") = createEnhancedErrorFilter(s, fltError)
C30_Witness ==
    /\ fltService = "authentication" /\ fltError.hasResponse
    /\ fltError.status \in { 401, 503 }
    /\ fltResult = (IF fltError.status = 401 THEN "filtered" ELSE "trip")

\* C27: the keys with a pending expiry timer are exactly the keys in the
\* cache (one timer per key; none after clear), and an entry is removed by
\* expiry only when the TTL of the key's most recent set has elapsed.
C27_TimersMatchEntries ==
    /\ [](DOMAIN timers = DOMAIN cache)
    /\ [][ \A k \in DOMAIN cache :
              (cacheOps' = cacheOps /\ k \notin DOMAIN cache') =>
                  cacheNow' >= lastSet[k].at + TtlParam(lastSet[k].ttl) ]_vars

\* C28: as long as reinitializeRateLimiter has not been called, however
\* many requests arrive before the limiter is in place, one initialization
\* is started, one limiter is built, and every request that goes on to
\* consume does so on that limiter.
C28_InitializedOnce ==
    reinits = 0 =>
        /\ Len(promises) <= 1 /\ Len(limiters) <= 1
        /\ \A r \in 1..MaxRequests :
               requests[r].pc \in { "consuming", "done" } =>
                   requests[r].limiter = 1 /\ rateLimiter = 1
C28_Witness ==
    /\ reinits = 0 /\ Len(promises) = 1 /\ initRead.isRedis
    /\ \A r \in 1..MaxRequests :
           requests[r].pc = "consuming" /\ requests[r].limiter = 1

\* C29: within one window a client is admitted by consume() no more often
\* than the points budget allows, counted over all limiters whose
\* initialization read the same cache strategy and connectivity: a
\* reinitialization in between does not give an exhausted client a new
\* budget.
C29_BlockSurvivesReinit ==
    \A i \in 1..Len(limiters) :
        Cardinality({ r \in 1..MaxRequests :
                        /\ requests[r].pc = "done" /\ requests[r].limiter # 0
                        /\ requests[r].outcome = "next"
                        /\ limiters[requests[r].limiter].read = limiters[i].read })
            <= ServiceOptions.points

\* C23: a request goes on to the routes (and so to a breaker's fire())
\* only after a consume() for it was admitted, also while the limiter is
\* being initialized or reinitialized.
C23_ConsumeBeforeFire ==
    \A r \in 1..MaxRequests :
        ReachesFire(r) =>
            /\ requests[r].limiter # 0
            /\ LET l == limiters[requests[r].limiter]
               IN  \/ /\ l.backend = "memory"
                      /\ ~OverBudget(PositionIn(l.consumedBy, r, 1), l.points)
                   \/ /\ l.backend = "redis"
                      /\ PositionIn(redisConsumedBy, r, 1) # 0

\* C22: in every health report each breaker constructed appears with one
\* state out of CLOSED, OPEN, HALF_OPEN (the state it is in); status is
\* 'degraded' exactly when a breaker is OPEN, 'recovering' exactly when
\* none is OPEN and one is HALF_OPEN, 'healthy' otherwise; and the summary
\* counts add up to its total.
C22_HealthReportShape ==
    healthReport # NoReport =>
        LET cb == healthReport.circuit_breakers
            anyOpen == \E k \in DOMAIN breakerStates : breakerStates[k] = "OPEN"
            anyHalf == \E k \in DOMAIN breakerStates : breakerStates[k] = "HALF_OPEN"
        IN  /\ DOMAIN cb = { k \in DOMAIN breakerInstances :
                                ~breakerInstances[k].null }
            /\ \A k \in DOMAIN cb :
                   /\ cb[k].state \in { "CLOSED", "OPEN", "HALF_OPEN" }
                   /\ cb[k].state = breakerStates[k]
            /\ healthReport.status = "degraded" <=> anyOpen
            /\ healthReport.status = "recovering" <=> (~anyOpen /\ anyHalf)
            /\ healthReport.status = "healthy" <=> (~anyOpen /\ ~anyHalf)
            /\ healthReport.summary.total =
                   healthReport.summary.open + healthReport.summary.half_open
                   + healthReport.summary.closed
            /\ healthReport.summary.total = Cardinality(DOMAIN cb)
C22_Witness ==
    /\ healthReport # NoReport /\ healthReport.status = "degraded"
    /\ healthReport.summary.open >= 1 /\ healthReport.summary.half_open >= 1
    /\ healthReport.summary.closed >= 1
    /\ \E k \in DOMAIN breakerInstances : breakerInstances[k].null

\* C21: with the redis strategy configured and connect() rejecting,
\* getInstance() always resolves to the memory cache, and over the calls
\* made since the last reset() the failure is logged once and every call
\* resolves to the same memory-backed instance.
C21_FallbackLoggedOnce ==
    (fcStrategy = "redis" /\ fcConnectFails /\ ~fcRedisUp) =>
        /\ fcCache \in { "null", "memory" }
        /\ \A i \in 1..Len(fcReturned) : fcReturned[i] = "memory"
        /\ fcWarns <= 1
        /\ fcReturned # << >> => fcWarns = 1
C21_Witness ==
    /\ fcStrategy = "redis" /\ fcConnectFails /\ ~fcRedisUp
    /\ Len(fcReturned) >= 3 /\ fcWarns = 1 /\ fcCache = "memory"

====
